---------------------------- MODULE Spec2Model ----------------------------
(***************************************************************************)
(* Model of Utf8Conv.h (GiovanniDicanio/Utf8ConvAtlStl): the conversion    *)
(* functions Utf16FromUtf8 and Utf8FromUtf16, each with an owned-string    *)
(* overload and a [start, finish) range overload, around the Win32         *)
(* services MultiByteToWideChar and WideCharToMultiByte.                   *)
(*                                                                         *)
(* A buffer is a record [fill, tail]: `fill` copies of the character 'C'   *)
(* (as built by the gigantic-string tests) followed by the code units of   *)
(* `tail`.  Lengths near and above 2^31 are reached through `fill`, the    *)
(* content that matters for transcoding through `tail`.                    *)
(***************************************************************************)
EXTENDS Integers, Sequences, FiniteSets, TLC

VARIABLES
    sizeBits,     \* width of size_t / pointers of the build: 32 or 64
    live,         \* the threads that make calls
    repertoire,   \* the inputs the callers draw from: "all" or "few"
    fakeResults,  \* results a substituted (fake) service may report on failure
    pc,           \* pc[t]: position of thread t inside the call it is making
    call,         \* call[t]: the arguments of the call thread t is making
    loc,          \* loc[t]: the local variables of the function body
    lastError,    \* lastError[t]: the thread's last-error value (GetLastError)
    svcCalls,     \* svcCalls[t]: the service calls made by the current call
    outcome       \* outcome[t]: what the call returned or threw

vars == <<sizeBits, live, repertoire, fakeResults, pc, call, loc, lastError, svcCalls, outcome>>

-----------------------------------------------------------------------------
(* Bounds of the model *)

\* number of chunks an input's tail is built from
MaxChunks == 2

Threads == {1, 2}

-----------------------------------------------------------------------------
(* Program and platform constants *)

\* (std::numeric_limits<int>::max)()
IntMax == 2147483647

ERROR_INVALID_PARAMETER == 87

ERROR_INSUFFICIENT_BUFFER == 122

ERROR_INVALID_FLAGS == 1004

ERROR_NO_UNICODE_TRANSLATION == 1113

MB_ERR_INVALID_CHARS == 8

WC_ERR_INVALID_CHARS == 128

Directions == {"Utf16FromUtf8", "Utf8FromUtf16"}

Opposite(d) == IF d = "Utf16FromUtf8" THEN "Utf8FromUtf16" ELSE "Utf16FromUtf8"

\* sizeof(char) = 1 for the UTF-8 source, sizeof(wchar_t) = 2 for the UTF-16 source
ElemSize(d) == IF d = "Utf16FromUtf8" THEN 1 ELSE 2

-----------------------------------------------------------------------------
(* Unsigned integers of size_t width.  A value is <<l0, l1, l2>>, standing   *)
(* for l0 + l1 * 2^30 + l2 * 2^60 with 0 <= l0, l1 < 2^30, so that values    *)
(* of 2^31 and more, and their wrap-around at 2^32 and 2^64, are exact.      *)

LimbBase == 2^30

\* the value of an int n >= 0
Big(n) == <<n % LimbBase, n \div LimbBase, 0>>

BigZero == Big(0)

BigAdd(a, b) ==
    LET s0 == a[1] + b[1]
        s1 == a[2] + b[2] + (s0 \div LimbBase)
    IN  <<s0 % LimbBase, s1 % LimbBase, a[3] + b[3] + (s1 \div LimbBase)>>

\* a - b with borrows; the top limb is negative when a < b
BigSub(a, b) ==
    LET d0 == a[1] - b[1]
        d1 == a[2] - b[2] + (d0 \div LimbBase)
    IN  <<d0 % LimbBase, d1 % LimbBase, a[3] - b[3] + (d1 \div LimbBase)>>

BigLess(a, b) ==
    \/ a[3] < b[3]
    \/ a[3] = b[3] /\ a[2] < b[2]
    \/ a[3] = b[3] /\ a[2] = b[2] /\ a[1] < b[1]

\* floor(a / 2)
BigHalf(a) ==
    <<(a[1] + (a[2] % 2) * LimbBase) \div 2, (a[2] + (a[3] % 2) * LimbBase) \div 2,
      a[3] \div 2>>

\* a modulo 2^bits, for bits = 32 or 64
Wrap(a, bits) ==
    IF bits = 32 THEN <<a[1], a[2] % 4, 0>> ELSE <<a[1], a[2], a[3] % 16>>

\* 2^(bits - 1): the sign bit of a value of that width
SignBit(bits) == IF bits = 32 THEN <<0, 2, 0>> ELSE <<0, 0, 8>>

\* static_cast<int>(a): the low 32 bits of a, read as a signed int
ToInt(a) ==
    LET q == a[2] % 4
    IN  IF q < 2 THEN q * LimbBase + a[1] ELSE (q - 4) * LimbBase + a[1]

\* mutant: the length is counted in bytes, not in elements
PointerDifference_Bytes(finish, start, elemSize, bits) == Wrap(BigSub(finish, start), bits)

\* finish - start for pointers to elements of elemSize bytes, converted to size_t:
\* the byte difference wraps at the pointer width, is read as a signed ptrdiff_t
\* and divided by the element size (an arithmetic shift for 2-byte elements).
PointerDifference(finish, start, elemSize, bits) ==
    LET bytes == Wrap(BigSub(finish, start), bits)
    IN  IF elemSize = 1 THEN bytes
        ELSE IF BigLess(bytes, SignBit(bits)) THEN BigHalf(bytes)
        ELSE BigAdd(BigHalf(bytes), SignBit(bits))

-----------------------------------------------------------------------------
(* Buffers *)

\* fill is a size_t value, tail a sequence of code units
EmptyBuf == [fill |-> BigZero, tail |-> <<>>]

BufLen(b) == BigAdd(b.fill, Big(Len(b.tail)))

\* the first n units of buffer b, for a size_t n with 0 <= n <= BufLen(b)
Take(b, n) ==
    IF ~BigLess(b.fill, n)
    THEN [fill |-> n, tail |-> <<>>]
    ELSE [fill |-> b.fill, tail |-> SubSeq(b.tail, 1, ToInt(BigSub(n, b.fill)))]

-----------------------------------------------------------------------------
(* The platform transcoding service: MultiByteToWideChar(CP_UTF8, ...) and  *)
(* WideCharToMultiByte(CP_UTF8, ...), as the platform documents them.       *)

IsCont(b) == b >= 128 /\ b <= 191

IsHighSurrogate(u) == u >= 55296 /\ u <= 56319

IsLowSurrogate(u) == u >= 56320 /\ u <= 57343

\* the UTF-16 code units of code point cp
Utf16Units(cp) ==
    IF cp < 65536
    THEN <<cp>>
    ELSE <<55296 + ((cp - 65536) \div 1024), 56320 + ((cp - 65536) % 1024)>>

\* the UTF-8 bytes of code point cp
Utf8Bytes(cp) ==
    IF cp < 128 THEN <<cp>>
    ELSE IF cp < 2048 THEN <<192 + (cp \div 64), 128 + (cp % 64)>>
    ELSE IF cp < 65536
         THEN <<224 + (cp \div 4096), 128 + ((cp \div 64) % 64), 128 + (cp % 64)>>
         ELSE <<240 + (cp \div 262144), 128 + ((cp \div 4096) % 64),
                128 + ((cp \div 64) % 64), 128 + (cp % 64)>>

\* The well-formed UTF-8 sequence starting at s[i]: [n |-> bytes used, cp |-> code
\* point], n = 0 when s[i] starts no well-formed sequence (a stray continuation
\* byte, an overlong form, an encoded surrogate, a truncated sequence, > U+10FFFF).
Utf8SeqAt(s, i) ==
    LET b0 == s[i]
        has(k) == i + k <= Len(s) /\ \A j \in 1..k : IsCont(s[i + j])
    IN  IF b0 < 128 THEN [n |-> 1, cp |-> b0]
        ELSE IF b0 >= 194 /\ b0 <= 223 /\ has(1)
             THEN [n |-> 2, cp |-> (b0 - 192) * 64 + (s[i + 1] - 128)]
        ELSE IF b0 >= 224 /\ b0 <= 239 /\ has(2)
                /\ (b0 = 224 => s[i + 1] >= 160)
                /\ (b0 = 237 => s[i + 1] <= 159)
             THEN [n |-> 3,
                   cp |-> (b0 - 224) * 4096 + (s[i + 1] - 128) * 64 + (s[i + 2] - 128)]
        ELSE IF b0 >= 240 /\ b0 <= 244 /\ has(3)
                /\ (b0 = 240 => s[i + 1] >= 144)
                /\ (b0 = 244 => s[i + 1] <= 143)
             THEN [n |-> 4,
                   cp |-> (b0 - 240) * 262144 + (s[i + 1] - 128) * 4096
                          + (s[i + 2] - 128) * 64 + (s[i + 3] - 128)]
        ELSE [n |-> 0, cp |-> 0]

RECURSIVE Utf8DecodeFrom(_, _, _, _)
\* UTF-8 bytes s[i..] to UTF-16 units appended to acc.  strict: an invalid sequence
\* fails the conversion; otherwise it is replaced by U+FFFD.
Utf8DecodeFrom(s, i, acc, strict) ==
    IF i > Len(s) THEN [ok |-> TRUE, out |-> acc]
    ELSE LET q == Utf8SeqAt(s, i)
         IN  IF q.n = 0
             THEN IF strict
                  THEN [ok |-> FALSE, out |-> <<>>]
                  ELSE Utf8DecodeFrom(s, i + 1, Append(acc, 65533), strict)
             ELSE Utf8DecodeFrom(s, i + q.n, acc \o Utf16Units(q.cp), strict)

RECURSIVE Utf16EncodeFrom(_, _, _, _)
\* UTF-16 units s[i..] to UTF-8 bytes appended to acc.  strict: an unpaired
\* surrogate fails the conversion; otherwise it is replaced by U+FFFD.
Utf16EncodeFrom(s, i, acc, strict) ==
    IF i > Len(s) THEN [ok |-> TRUE, out |-> acc]
    ELSE LET u == s[i]
         IN  IF IsHighSurrogate(u) /\ i + 1 <= Len(s) /\ IsLowSurrogate(s[i + 1])
             THEN Utf16EncodeFrom(s, i + 2,
                      acc \o Utf8Bytes(65536 + (u - 55296) * 1024 + (s[i + 1] - 56320)),
                      strict)
             ELSE IF IsHighSurrogate(u) \/ IsLowSurrogate(u)
             THEN IF strict
                  THEN [ok |-> FALSE, out |-> <<>>]
                  ELSE Utf16EncodeFrom(s, i + 1, acc \o Utf8Bytes(65533), strict)
             ELSE Utf16EncodeFrom(s, i + 1, acc \o Utf8Bytes(u), strict)

\* the flag of each service that requests failure on invalid input
StrictFlag(d) == IF d = "Utf16FromUtf8" THEN MB_ERR_INVALID_CHARS ELSE WC_ERR_INVALID_CHARS

\* The conversion of buffer src in direction d.  The fill character 'C' is ASCII:
\* it is one unit in either encoding, so the fill carries over unchanged.
Transcoded(d, src, strict) ==
    LET r == IF d = "Utf16FromUtf8"
             THEN Utf8DecodeFrom(src.tail, 1, <<>>, strict)
             ELSE Utf16EncodeFrom(src.tail, 1, <<>>, strict)
    IN  [ok |-> r.ok, out |-> [fill |-> src.fill, tail |-> r.out]]

\* a reply of the service: the returned int, whether it set the thread's last
\* error and to what, the units it wrote to the destination, and whether the
\* reply is a scripted failure of a substituted service
Reply(res, sets, err, written, injected) ==
    [res |-> res, sets |-> sets, err |-> err, written |-> written, injected |-> injected]

\* The documented reply to a call: 0 and a last error on failure, else the number
\* of units required (dstSize = 0) or written.
PlatformReply(d, flags, src, srcLen, dstSize) ==
    IF flags # 0 /\ flags # StrictFlag(d)
    THEN Reply(0, TRUE, ERROR_INVALID_FLAGS, EmptyBuf, FALSE)
    ELSE IF srcLen <= 0 \/ BigLess(BufLen(src), Big(srcLen)) \/ dstSize < 0
    THEN Reply(0, TRUE, ERROR_INVALID_PARAMETER, EmptyBuf, FALSE)
    ELSE LET c == Transcoded(d, Take(src, Big(srcLen)), flags = StrictFlag(d))
         IN  IF ~c.ok
             THEN Reply(0, TRUE, ERROR_NO_UNICODE_TRANSLATION, EmptyBuf, FALSE)
             ELSE IF BigLess(Big(IntMax), BufLen(c.out))
             THEN Reply(0, TRUE, ERROR_INVALID_PARAMETER, EmptyBuf, FALSE)
             ELSE IF dstSize = 0
             THEN Reply(ToInt(BufLen(c.out)), FALSE, 0, EmptyBuf, FALSE)
             ELSE IF dstSize < ToInt(BufLen(c.out))
             THEN Reply(0, TRUE, ERROR_INSUFFICIENT_BUFFER, EmptyBuf, FALSE)
             ELSE Reply(ToInt(BufLen(c.out)), FALSE, 0, c.out, FALSE)

\* last-error codes a failing service may report besides the documented ones
FakeErrors == {0, ERROR_INSUFFICIENT_BUFFER}

\* Every reply the service can give to a call: the documented one, or a failure
\* with a result and a last error scripted by a substituted service.
ServiceReplies(d, flags, src, srcLen, dstSize) ==
    {PlatformReply(d, flags, src, srcLen, dstSize)}
    \cup {Reply(r, TRUE, e, EmptyBuf, TRUE) : r \in fakeResults, e \in FakeErrors}

-----------------------------------------------------------------------------
(* The callers' inputs *)

\* byte groups the UTF-8 inputs are built from: 'v', NUL, U+00E9, "kin" U+91D1,
\* U+1F600, the invalid tail of the tests (C0 76 77), an encoded surrogate and
\* a truncated sequence
Utf8Chunks ==
    {<<118>>, <<0>>, <<195, 169>>, <<233, 135, 145>>, <<240, 159, 152, 128>>,
     <<192, 118, 119>>, <<237, 160, 128>>, <<233, 135>>}

\* code-unit groups the UTF-16 inputs are built from: 'v', NUL, U+00E9, "kin",
\* the surrogate pair of U+1F600, the invalid tail of the tests (D800 0100), a
\* lone low and a lone high surrogate
Utf16Chunks ==
    {<<118>>, <<0>>, <<233>>, <<37329>>, <<55357, 56832>>,
     <<55296, 256>>, <<56320>>, <<55296>>}

Chunks(d) == IF d = "Utf16FromUtf8" THEN Utf8Chunks ELSE Utf16Chunks

RECURSIVE Tails(_, _)
\* the sequences of at most k chunks
Tails(d, k) ==
    IF k = 0 THEN {<<>>}
    ELSE Tails(d, k - 1) \cup {s \o c : s \in Tails(d, k - 1), c \in Chunks(d)}

\* lengths of the runs of 'C' of the gigantic inputs: around 2^31 - 1, and 5 giga
HugeFills ==
    {Big(IntMax - 1), Big(IntMax), BigAdd(Big(IntMax), Big(1)), <<0, 5, 0>>}

\* the source buffers of direction d
Inputs(d) ==
    {[fill |-> BigZero, tail |-> s] : s \in Tails(d, MaxChunks)}
    \cup {[fill |-> f, tail |-> s] : f \in HugeFills, s \in Tails(d, 1)}

\* addresses at which a source buffer may lie
Addresses == {Big(4096)}

\* the address one past the last element of buffer b stored at address a
EndAddress(a, b, d) ==
    IF ElemSize(d) = 1 THEN BigAdd(a, BufLen(b))
    ELSE BigAdd(a, BigAdd(BufLen(b), BufLen(b)))

\* Buffer b can lie at address a in a build of that pointer width: an object has
\* at most PTRDIFF_MAX bytes and ends inside the address space.
Addressable(a, b, d, bits) ==
    /\ BigLess(EndAddress(BigZero, b, d), SignBit(bits))
    /\ EndAddress(a, b, d) = Wrap(EndAddress(a, b, d), bits)

\* addresses in the upper part of the address space of a process: above 2^31 in a
\* 32-bit build (a large-address-aware process), below 2^47 in a 64-bit build
HighAddresses(bits) ==
    IF bits = 32
    THEN {<<4096, 2, 0>>, <<4098, 2, 0>>, <<0, 3, 0>>}
    ELSE {<<0, 3, 0>>, <<0, 131071, 0>>}

\* the four inputs of the callers that run side by side: the empty string, "kin",
\* the invalid tail and the string of 5 giga 'C' of the tests
FewInputs(d) ==
    IF d = "Utf16FromUtf8"
    THEN {EmptyBuf,
          [fill |-> BigZero, tail |-> <<233, 135, 145>>],
          [fill |-> BigZero, tail |-> <<192, 118, 119>>],
          [fill |-> <<0, 5, 0>>, tail |-> <<>>]}
    ELSE {EmptyBuf,
          [fill |-> BigZero, tail |-> <<37329>>],
          [fill |-> BigZero, tail |-> <<55296, 256>>],
          [fill |-> <<0, 5, 0>>, tail |-> <<>>]}

\* the source buffers the callers pass
CallerInputs(d) == IF repertoire = "all" THEN Inputs(d) ELSE FewInputs(d)

\* where a view of n elements of the buffer at address a may start: at a, and an
\* empty range also at the null pointer
RangeAddresses(a, n) == IF n = BigZero THEN {a, BigZero} ELSE {a}

\* an owned string can hold b: a CStringW keeps its length in an int, and a
\* std::string of a 32-bit build holds less than 2^31 chars
Ownable(b, d, bits) ==
    (d = "Utf8FromUtf16" \/ bits = 32) => ~BigLess(Big(IntMax), BufLen(b))

-----------------------------------------------------------------------------
(* State of a call *)

\* dir and entry name the function called; src is its input (the owned string,
\* or the content of [start, finish)), mem the memory that lies at the input's
\* address addr (the input, or the larger buffer it is a view of); leg and orig
\* tell a conversion back (leg 2) and the string the round trip started from
NoCall ==
    [dir |-> "Utf16FromUtf8", entry |-> "none", src |-> EmptyBuf, mem |-> EmptyBuf,
     addr |-> BigZero, leg |-> 0, orig |-> EmptyBuf]

\* the lengths of the views [start, finish) a caller takes of buffer b: none of it,
\* all of it, all but its last element
ViewLengths(b) ==
    {BigZero, BufLen(b)} \cup (IF BufLen(b) = BigZero THEN {} ELSE {BigSub(BufLen(b), Big(1))})

NoLocals ==
    [start |-> BigZero, finish |-> BigZero, len |-> BigZero, srcLen |-> 0,
     dstLen |-> 0, result |-> 0, written |-> EmptyBuf]

NoOutcome ==
    [kind |-> "none", type |-> "", what |-> "", code |-> 0, buf |-> EmptyBuf,
     unwritten |-> 0]

\* the call returns buffer b, of which the last n units were never written
Returned(b, n) ==
    [kind |-> "returned", type |-> "", what |-> "", code |-> 0, buf |-> b,
     unwritten |-> n]

\* the call throws Utf8ConversionException(message, errorCode)
Utf8ConversionException(message, errorCode) ==
    [kind |-> "threw", type |-> "Utf8ConversionException", what |-> message,
     code |-> errorCode, buf |-> EmptyBuf, unwritten |-> 0]

\* the output string refuses a negative length: CStringW::GetBuffer and
\* std::string::resize throw an exception of their own
AllocationException ==
    [kind |-> "threw", type |-> "AllocationException", what |-> "", code |-> 0,
     buf |-> EmptyBuf, unwritten |-> 0]

TooLongMessage == "Input string too long: size_t-length doesn't fit into int.\n"

ErrorMessage(d) ==
    IF d = "Utf16FromUtf8"
    THEN "Error in converting from UTF-8 to UTF-16.\n"
    ELSE "Error in converting from UTF-16 to UTF-8.\n"

\* mutant: Utf16FromUtf8 passes no flag
kFlags_LenientUtf8(d) == IF d = "Utf16FromUtf8" THEN 0 ELSE WC_ERR_INVALID_CHARS

\* mutant: Utf8FromUtf16 passes no flag
kFlags_LenientUtf16(d) == IF d = "Utf16FromUtf8" THEN MB_ERR_INVALID_CHARS ELSE 0

\* mutant: neither function passes a flag
kFlags_None(d) == 0

\* constexpr DWORD kFlags of each range overload
kFlags(d) == IF d = "Utf16FromUtf8" THEN MB_ERR_INVALID_CHARS ELSE WC_ERR_INVALID_CHARS

\* a record of one call to the service
ServiceCall(pass, d, flags, start, srcLen, dstSize, r) ==
    [pass |-> pass, dir |-> d, flags |-> flags, src |-> start, srcLen |-> srcLen,
     dstSize |-> dstSize, res |-> r.res, err |-> r.err, sets |-> r.sets,
     injected |-> r.injected]

Init ==
    /\ sizeBits \in {32, 64}
    /\ live = {1}
    /\ repertoire = "all"
    /\ fakeResults = {0}
    /\ pc = [t \in Threads |-> "idle"]
    /\ call = [t \in Threads |-> NoCall]
    /\ loc = [t \in Threads |-> NoLocals]
    /\ lastError = [t \in Threads |-> 0]
    /\ svcCalls = [t \in Threads |-> <<>>]
    /\ outcome = [t \in Threads |-> NoOutcome]

-----------------------------------------------------------------------------
(* The callers *)

\* A caller passes an owned string to Utf16FromUtf8(const std::string&) or to
\* Utf8FromUtf16(const CStringW&).
CallOwned(t) ==
    /\ t \in live
    /\ pc[t] = "idle"
    /\ \E d \in Directions : \E b \in CallerInputs(d), a \in Addresses :
          /\ Ownable(b, d, sizeBits)
          /\ Addressable(a, b, d, sizeBits)
          /\ call' = [call EXCEPT ![t] =
                        [dir |-> d, entry |-> "owned", src |-> b, mem |-> b, addr |-> a,
                         leg |-> 1, orig |-> b]]
    /\ pc' = [pc EXCEPT ![t] = "owned"]
    /\ loc' = [loc EXCEPT ![t] = NoLocals]
    /\ svcCalls' = [svcCalls EXCEPT ![t] = <<>>]
    /\ outcome' = [outcome EXCEPT ![t] = NoOutcome]
    /\ UNCHANGED <<sizeBits, live, repertoire, fakeResults, lastError>>

\* A caller passes a view [start, finish) of a buffer to a range overload.
CallRange(t) ==
    /\ t \in live
    /\ pc[t] = "idle"
    /\ \E d \in Directions : \E b \in CallerInputs(d), a \in Addresses :
          /\ Addressable(a, b, d, sizeBits)
          /\ \E n \in ViewLengths(b) : \E start \in RangeAddresses(a, n) :
                /\ call' = [call EXCEPT ![t] =
                              [dir |-> d, entry |-> "range", src |-> Take(b, n), mem |-> b,
                               addr |-> start, leg |-> 1, orig |-> Take(b, n)]]
                /\ loc' = [loc EXCEPT ![t] =
                             [NoLocals EXCEPT !.start = start,
                                              !.finish = EndAddress(start, Take(b, n), d)]]
    /\ pc' = [pc EXCEPT ![t] = "range"]
    /\ svcCalls' = [svcCalls EXCEPT ![t] = <<>>]
    /\ outcome' = [outcome EXCEPT ![t] = NoOutcome]
    /\ UNCHANGED <<sizeBits, live, repertoire, fakeResults, lastError>>

\* the pointer pairs with start > finish a caller may pass: the ends of a buffer
\* swapped, or a start in the upper part of the address space and a finish at a
\* buffer; mem is what lies at start (nothing known past the end of a buffer)
ReversedRanges(d, bits) ==
    UNION {{[start |-> EndAddress(a, b, d), finish |-> a, mem |-> EmptyBuf] :
               b \in {c \in CallerInputs(d) :
                         BufLen(c) # BigZero /\ Addressable(a, c, d, bits)}}
           \cup {[start |-> h, finish |-> a, mem |-> b] :
                    h \in HighAddresses(bits),
                    b \in {c \in CallerInputs(d) : Addressable(a, c, d, bits)}} :
           a \in Addresses}

\* A caller passes start > finish to a range overload of a build without debug
\* assertions (ATLASSERT compiles to nothing).
CallReversed(t) ==
    /\ t \in live
    /\ pc[t] = "idle"
    /\ \E d \in Directions : \E r \in ReversedRanges(d, sizeBits) :
          /\ call' = [call EXCEPT ![t] =
                        [dir |-> d, entry |-> "range", src |-> EmptyBuf, mem |-> r.mem,
                         addr |-> r.start, leg |-> 1, orig |-> EmptyBuf]]
          /\ loc' = [loc EXCEPT ![t] =
                       [NoLocals EXCEPT !.start = r.start, !.finish = r.finish]]
    /\ pc' = [pc EXCEPT ![t] = "range"]
    /\ svcCalls' = [svcCalls EXCEPT ![t] = <<>>]
    /\ outcome' = [outcome EXCEPT ![t] = NoOutcome]
    /\ UNCHANGED <<sizeBits, live, repertoire, fakeResults, lastError>>

\* A caller converts back the string a conversion returned, as the round-trip
\* tests do, through the owned-string overload of the other direction.
CallBack(t) ==
    /\ pc[t] = "done"
    /\ call[t].leg = 1
    /\ outcome[t].kind = "returned"
    /\ outcome[t].unwritten = 0
    /\ \E a \in Addresses :
          /\ Addressable(a, outcome[t].buf, Opposite(call[t].dir), sizeBits)
          /\ call' = [call EXCEPT ![t] =
                        [dir |-> Opposite(call[t].dir), entry |-> "owned",
                         src |-> outcome[t].buf, mem |-> outcome[t].buf, addr |-> a,
                         leg |-> 2, orig |-> call[t].src]]
    /\ pc' = [pc EXCEPT ![t] = "owned"]
    /\ loc' = [loc EXCEPT ![t] = NoLocals]
    /\ svcCalls' = [svcCalls EXCEPT ![t] = <<>>]
    /\ outcome' = [outcome EXCEPT ![t] = NoOutcome]
    /\ UNCHANGED <<sizeBits, live, repertoire, fakeResults, lastError>>

\* The caller is done with the outcome of its call.
Finish(t) ==
    /\ pc[t] = "done"
    /\ pc' = [pc EXCEPT ![t] = "idle"]
    /\ call' = [call EXCEPT ![t] = NoCall]
    /\ loc' = [loc EXCEPT ![t] = NoLocals]
    /\ svcCalls' = [svcCalls EXCEPT ![t] = <<>>]
    /\ outcome' = [outcome EXCEPT ![t] = NoOutcome]
    /\ UNCHANGED <<sizeBits, live, repertoire, fakeResults, lastError>>

-----------------------------------------------------------------------------
(* The conversion functions.  Both directions have the same body; where they *)
(* differ (flags, service, element size, message) the direction decides.     *)

\* the call of thread t ends with outcome o
End(t, o) ==
    /\ pc' = [pc EXCEPT ![t] = "done"]
    /\ outcome' = [outcome EXCEPT ![t] = o]

\* mutant: the owned-string overloads take no string for empty
IsEmpty_Never(b) == FALSE

\* utf8.empty() / utf16.IsEmpty()
IsEmpty(b) == BufLen(b) = BigZero

\* mutant: the owned-string overload passes on the string without its last element
OwnedOverload_OneShort(t) ==
    /\ pc[t] = "owned"
    /\ IF IsEmpty(call[t].src)
       THEN /\ End(t, Returned(EmptyBuf, 0))
            /\ UNCHANGED loc
       ELSE /\ loc' = [loc EXCEPT ![t].start = call[t].addr,
                                  ![t].finish =
                                      EndAddress(call[t].addr,
                                                 Take(call[t].src,
                                                      BigSub(BufLen(call[t].src), Big(1))),
                                                 call[t].dir)]
            /\ pc' = [pc EXCEPT ![t] = "range"]
            /\ UNCHANGED outcome
    /\ UNCHANGED <<sizeBits, live, repertoire, fakeResults, call, lastError, svcCalls>>

\* Utf16FromUtf8(const std::string&), Utf8FromUtf16(const CStringW&): an empty
\* string returns an empty result, any other is passed on as [data, data + length).
OwnedOverload(t) ==
    /\ pc[t] = "owned"
    /\ IF IsEmpty(call[t].src)
       THEN /\ End(t, Returned(EmptyBuf, 0))
            /\ UNCHANGED loc
       ELSE /\ loc' = [loc EXCEPT ![t].start = call[t].addr,
                                  ![t].finish = EndAddress(call[t].addr, call[t].src,
                                                           call[t].dir)]
            /\ pc' = [pc EXCEPT ![t] = "range"]
            /\ UNCHANGED outcome
    /\ UNCHANGED <<sizeBits, live, repertoire, fakeResults, call, lastError, svcCalls>>

\* mutant: the special case of empty input is not handled
IsEmptyRange_Never(start, finish) == FALSE

\* the special case of empty input of a range overload
IsEmptyRange(start, finish) == start = finish

\* Range overload, entry: an empty range returns an empty result.
RangeEntry(t) ==
    /\ pc[t] = "range"
    /\ IF IsEmptyRange(loc[t].start, loc[t].finish)
       THEN End(t, Returned(EmptyBuf, 0))
       ELSE /\ pc' = [pc EXCEPT ![t] = "guard"]
            /\ UNCHANGED outcome
    /\ UNCHANGED <<sizeBits, live, repertoire, fakeResults, call, loc, lastError, svcCalls>>

\* mutant: the length is compared after the narrowing cast to int
TooLong_AfterCast(len) == ToInt(len) > IntMax

\* mutant: the bound itself is taken for too long
TooLong_OffByOne(len) == ~BigLess(len, Big(IntMax))

\* mutant: the length is compared as a signed value of the width of size_t
TooLong_Signed(len) == BigLess(Big(IntMax), len) /\ BigLess(len, SignBit(sizeBits))

\* the size_t length does not fit into an int
TooLong(len) == BigLess(Big(IntMax), len)

\* Range overload, length guard: the length of the range as a size_t; too long
\* a range throws, any other length is cast to int.
LengthGuard(t) ==
    /\ pc[t] = "guard"
    /\ LET len == PointerDifference(loc[t].finish, loc[t].start,
                                    ElemSize(call[t].dir), sizeBits)
       IN  IF TooLong(len)
           THEN /\ End(t, Utf8ConversionException(TooLongMessage, ERROR_INVALID_PARAMETER))
                /\ loc' = [loc EXCEPT ![t].len = len]
           ELSE /\ loc' = [loc EXCEPT ![t].len = len, ![t].srcLen = ToInt(len)]
                /\ pc' = [pc EXCEPT ![t] = "query"]
                /\ UNCHANGED outcome
    /\ UNCHANGED <<sizeBits, live, repertoire, fakeResults, call, lastError, svcCalls>>

\* mutant: the last error is one value of the process, not one of each thread
CallService_SharedLastError(t, pass, flags, dstSize, r) ==
    /\ svcCalls' = [svcCalls EXCEPT ![t] =
                      Append(@, ServiceCall(pass, call[t].dir, flags, loc[t].start,
                                            loc[t].srcLen, dstSize, r))]
    /\ lastError' = [u \in Threads |-> IF r.sets THEN r.err ELSE lastError[u]]

\* thread t calls the service and gets reply r
CallService(t, pass, flags, dstSize, r) ==
    /\ svcCalls' = [svcCalls EXCEPT ![t] =
                      Append(@, ServiceCall(pass, call[t].dir, flags, loc[t].start,
                                            loc[t].srcLen, dstSize, r))]
    /\ lastError' = [lastError EXCEPT ![t] = IF r.sets THEN r.err ELSE @]

\* Range overload, query pass: the service is asked for the size of the
\* destination string.
QueryPass(t) ==
    /\ pc[t] = "query"
    /\ \E r \in ServiceReplies(call[t].dir, kFlags(call[t].dir), call[t].mem,
                               loc[t].srcLen, 0) :
          /\ CallService(t, "query", kFlags(call[t].dir), 0, r)
          /\ loc' = [loc EXCEPT ![t].dstLen = r.res]
    /\ pc' = [pc EXCEPT ![t] = "queryCheck"]
    /\ UNCHANGED <<sizeBits, live, repertoire, fakeResults, call, outcome>>

\* mutant: only a negative result is taken for a failure
Failed_Negative(result) == result < 0

\* the result of a pass that the code takes for a failure
Failed(result) == result = 0

\* mutant: the error code is a fixed constant
CapturedError_Fixed(t) == ERROR_NO_UNICODE_TRANSLATION

\* const DWORD error = ::GetLastError()
CapturedError(t) == lastError[t]

\* mutant: a failure of the query pass is reported with a message of its own
QueryCheck_OwnMessage(t) ==
    /\ pc[t] = "queryCheck"
    /\ IF Failed(loc[t].dstLen)
       THEN End(t, Utf8ConversionException("Error in getting the length of the result.\n",
                                           CapturedError(t)))
       ELSE /\ pc' = [pc EXCEPT ![t] = "alloc"]
            /\ UNCHANGED outcome
    /\ UNCHANGED <<sizeBits, live, repertoire, fakeResults, call, loc, lastError, svcCalls>>

\* mutant: a failed query pass is tried once more
QueryCheck_Retry(t) ==
    /\ pc[t] = "queryCheck"
    /\ IF Failed(loc[t].dstLen)
       THEN IF Len(svcCalls[t]) < 2
            THEN /\ pc' = [pc EXCEPT ![t] = "query"]
                 /\ UNCHANGED outcome
            ELSE End(t, Utf8ConversionException(ErrorMessage(call[t].dir), CapturedError(t)))
       ELSE /\ pc' = [pc EXCEPT ![t] = "alloc"]
            /\ UNCHANGED outcome
    /\ UNCHANGED <<sizeBits, live, repertoire, fakeResults, call, loc, lastError, svcCalls>>

\* Range overload, after the query pass: a failure throws with the last error.
QueryCheck(t) ==
    /\ pc[t] = "queryCheck"
    /\ IF Failed(loc[t].dstLen)
       THEN End(t, Utf8ConversionException(ErrorMessage(call[t].dir), CapturedError(t)))
       ELSE /\ pc' = [pc EXCEPT ![t] = "alloc"]
            /\ UNCHANGED outcome
    /\ UNCHANGED <<sizeBits, live, repertoire, fakeResults, call, loc, lastError, svcCalls>>

\* Range overload, allocation: utf16.GetBuffer(utf16Length) / utf8.resize(utf8Length)
\* make room for the queried length.
Allocate(t) ==
    /\ pc[t] = "alloc"
    /\ IF loc[t].dstLen < 0
       THEN End(t, AllocationException)
       ELSE /\ pc' = [pc EXCEPT ![t] = "transcode"]
            /\ UNCHANGED outcome
    /\ UNCHANGED <<sizeBits, live, repertoire, fakeResults, call, loc, lastError, svcCalls>>

\* Range overload, transcode pass: the service converts into the destination.
TranscodePass(t) ==
    /\ pc[t] = "transcode"
    /\ \E r \in ServiceReplies(call[t].dir, kFlags(call[t].dir), call[t].mem,
                               loc[t].srcLen, loc[t].dstLen) :
          /\ CallService(t, "transcode", kFlags(call[t].dir), loc[t].dstLen, r)
          /\ loc' = [loc EXCEPT ![t].result = r.res, ![t].written = r.written]
    /\ pc' = [pc EXCEPT ![t] = "transcodeCheck"]
    /\ UNCHANGED <<sizeBits, live, repertoire, fakeResults, call, outcome>>

\* mutant: the length of the string is set one short, as if the queried length
\* counted a terminating NUL
ResultString_OneShort(t) ==
    Returned(Take(loc[t].written, Big(loc[t].dstLen - 1)), 0)

\* mutant: the string keeps one unit more than the queried length, as if room for
\* a terminating NUL were part of it
ResultString_OneOver(t) ==
    Returned(loc[t].written, loc[t].dstLen + 1 - ToInt(BufLen(loc[t].written)))

\* the string returned: the destination, its length set to the queried length
\* (utf16.ReleaseBuffer(utf16Length); utf8 was resized to utf8Length)
ResultString(t) ==
    Returned(loc[t].written, loc[t].dstLen - ToInt(BufLen(loc[t].written)))

\* mutant: a result of 0 is taken for a failure only when the last error is set
TranscodeCheck_TrustsLastError(t) ==
    /\ pc[t] = "transcodeCheck"
    /\ IF Failed(loc[t].result) /\ CapturedError(t) # 0
       THEN End(t, Utf8ConversionException(ErrorMessage(call[t].dir), CapturedError(t)))
       ELSE End(t, ResultString(t))
    /\ UNCHANGED <<sizeBits, live, repertoire, fakeResults, call, loc, lastError, svcCalls>>

\* Range overload, after the transcode pass: a failure throws with the last
\* error, otherwise the converted string is returned.
TranscodeCheck(t) ==
    /\ pc[t] = "transcodeCheck"
    /\ IF Failed(loc[t].result)
       THEN End(t, Utf8ConversionException(ErrorMessage(call[t].dir), CapturedError(t)))
       ELSE End(t, ResultString(t))
    /\ UNCHANGED <<sizeBits, live, repertoire, fakeResults, call, loc, lastError, svcCalls>>

Next ==
    \E t \in Threads :
        \/ CallOwned(t)
        \/ CallRange(t)
        \/ CallBack(t)
        \/ Finish(t)
        \/ OwnedOverload(t)
        \/ RangeEntry(t)
        \/ LengthGuard(t)
        \/ QueryPass(t)
        \/ QueryCheck(t)
        \/ Allocate(t)
        \/ TranscodePass(t)
        \/ TranscodeCheck(t)

Spec == Init /\ [][Next]_vars

\* What a call c ends with when nothing else runs: the body of the overloads taken
\* as one sequential function of the call's arguments and of the replies the
\* service gave to its passes (log).  A failed pass has set the last error.
SequentialOutcome(c, log) ==
    LET start == c.addr
        finish == EndAddress(c.addr, c.src, c.dir)
        len == PointerDifference(finish, start, ElemSize(c.dir), sizeBits)
        written == IF log[2].injected THEN EmptyBuf
                   ELSE PlatformReply(c.dir, kFlags(c.dir), c.mem, ToInt(len),
                                      log[1].res).written
    IN  IF c.entry = "owned" /\ IsEmpty(c.src) THEN Returned(EmptyBuf, 0)
        ELSE IF IsEmptyRange(start, finish) THEN Returned(EmptyBuf, 0)
        ELSE IF TooLong(len)
             THEN Utf8ConversionException(TooLongMessage, ERROR_INVALID_PARAMETER)
        ELSE IF Failed(log[1].res)
             THEN Utf8ConversionException(ErrorMessage(c.dir), log[1].err)
        ELSE IF log[1].res < 0 THEN AllocationException
        ELSE IF Failed(log[2].res)
             THEN Utf8ConversionException(ErrorMessage(c.dir), log[2].err)
        ELSE Returned(written, log[1].res - ToInt(BufLen(written)))

\* two threads make calls side by side, on a few inputs
InitPair ==
    /\ sizeBits \in {32, 64}
    /\ live = Threads
    /\ repertoire = "few"
    /\ fakeResults = {0}
    /\ pc = [t \in Threads |-> "idle"]
    /\ call = [t \in Threads |-> NoCall]
    /\ loc = [t \in Threads |-> NoLocals]
    /\ lastError = [t \in Threads |-> 0]
    /\ svcCalls = [t \in Threads |-> <<>>]
    /\ outcome = [t \in Threads |-> NoOutcome]

SpecPair == InitPair /\ [][Next]_vars

\* one thread calls, and a substituted service may also report a negative result
InitFake ==
    /\ sizeBits \in {32, 64}
    /\ live = {1}
    /\ repertoire = "all"
    /\ fakeResults = {0, -1}
    /\ pc = [t \in Threads |-> "idle"]
    /\ call = [t \in Threads |-> NoCall]
    /\ loc = [t \in Threads |-> NoLocals]
    /\ lastError = [t \in Threads |-> 0]
    /\ svcCalls = [t \in Threads |-> <<>>]
    /\ outcome = [t \in Threads |-> NoOutcome]

SpecFake == InitFake /\ [][Next]_vars

\* one thread calls, on a few inputs, and may also pass start > finish
InitReversed ==
    /\ sizeBits \in {32, 64}
    /\ live = {1}
    /\ repertoire = "few"
    /\ fakeResults = {0}
    /\ pc = [t \in Threads |-> "idle"]
    /\ call = [t \in Threads |-> NoCall]
    /\ loc = [t \in Threads |-> NoLocals]
    /\ lastError = [t \in Threads |-> 0]
    /\ svcCalls = [t \in Threads |-> <<>>]
    /\ outcome = [t \in Threads |-> NoOutcome]

NextReversed ==
    \/ Next
    \/ \E t \in Threads : CallReversed(t)

SpecReversed == InitReversed /\ [][NextReversed]_vars

-----------------------------------------------------------------------------
(* Properties *)

Done(t) == pc[t] = "done"

\* the call of thread t threw Utf8ConversionException with this error code
ThrewConversionError(t, errorCode) ==
    /\ outcome[t].kind = "threw"
    /\ outcome[t].type = "Utf8ConversionException"
    /\ outcome[t].code = errorCode

\* thread t is in a call of a function that takes a [start, finish) range, or of
\* Utf16FromUtf8(const std::string&), with an input longer than 2^31 - 1
TooLongInput(t) ==
    /\ call[t].entry \in {"owned", "range"}
    /\ call[t].entry = "owned" => call[t].dir = "Utf16FromUtf8"
    /\ BigLess(Big(IntMax), BufLen(call[t].src))

\* C1: a call whose input is longer than 2^31 - 1 (a range of either direction, or
\* a std::string passed to Utf16FromUtf8) makes no call to the service, neither the
\* query pass nor the transcode pass, and ends by throwing the conversion error
\* with code ERROR_INVALID_PARAMETER.
C1_TooLongInputRejected ==
    \A t \in Threads :
        TooLongInput(t) =>
            /\ svcCalls[t] = <<>>
            /\ pc[t] \in {"owned", "range", "guard", "done"}
            /\ Done(t) => /\ ThrewConversionError(t, ERROR_INVALID_PARAMETER)
                          /\ outcome[t].what = TooLongMessage

\* the std::string of 5 giga chars of the tests was passed to Utf16FromUtf8 and
\* the call threw
C1_Witness ==
    \E t \in Threads :
        /\ Done(t)
        /\ call[t].entry = "owned"
        /\ call[t].src = [fill |-> <<0, 5, 0>>, tail |-> <<>>]
        /\ outcome[t].kind = "threw"

\* C2: a range overload called with start = finish returns an empty buffer, throws
\* nothing and calls the service not once, whatever lies at start.
C2_EmptyRangeReturnsEmpty ==
    \A t \in Threads :
        (call[t].entry = "range" /\ loc[t].start = loc[t].finish) =>
            /\ svcCalls[t] = <<>>
            /\ pc[t] \in {"range", "done"}
            /\ Done(t) => outcome[t] = Returned(EmptyBuf, 0)

\* a range overload returned from a call with start = finish where a non-empty
\* buffer lies at start
C2_Witness ==
    \E t \in Threads :
        /\ Done(t)
        /\ call[t].entry = "range"
        /\ loc[t].start = loc[t].finish
        /\ loc[t].start # BigZero
        /\ ~IsEmpty(call[t].mem)
        /\ outcome[t].kind = "returned"

\* no reply to the current call of thread t was scripted by a substituted
\* service: the platform answered as documented
NoInjected(t) == \A i \in DOMAIN svcCalls[t] : ~svcCalls[t][i].injected

\* buffer b is well-formed text of the source encoding of direction d
Valid(d, b) == Transcoded(d, b, TRUE).ok

FitsInt(n) == ~BigLess(Big(IntMax), n)

\* C3 as claimed: Utf16FromUtf8 of a byte sequence that is not valid UTF-8 throws
\* the conversion error with code ERROR_NO_UNICODE_TRANSLATION.
C3_Original ==
    \A t \in Threads :
        (Done(t) /\ call[t].dir = "Utf16FromUtf8" /\ ~Valid(call[t].dir, call[t].src)
                 /\ NoInjected(t))
            => ThrewConversionError(t, ERROR_NO_UNICODE_TRANSLATION)

\* C3: Utf16FromUtf8 of a byte sequence that is not valid UTF-8 never returns a
\* buffer: it throws the conversion error, and when the sequence is no longer than
\* 2^31 - 1 and the platform answers as documented the code is
\* ERROR_NO_UNICODE_TRANSLATION.
C3_InvalidUtf8Rejected ==
    \A t \in Threads :
        (Done(t) /\ call[t].dir = "Utf16FromUtf8" /\ ~Valid(call[t].dir, call[t].src))
            => /\ outcome[t].kind = "threw"
               /\ outcome[t].type = "Utf8ConversionException"
               /\ (NoInjected(t) /\ FitsInt(BufLen(call[t].src)))
                      => outcome[t].code = ERROR_NO_UNICODE_TRANSLATION

\* Utf16FromUtf8 of 'v' followed by the bytes C0 76 77 threw with the code of
\* the platform
C3_Witness ==
    \E t \in Threads :
        /\ Done(t)
        /\ call[t].dir = "Utf16FromUtf8"
        /\ call[t].src = [fill |-> BigZero, tail |-> <<118, 192, 118, 119>>]
        /\ ThrewConversionError(t, ERROR_NO_UNICODE_TRANSLATION)

\* C4 as claimed: Utf8FromUtf16 of a code-unit sequence that is not valid UTF-16
\* throws the conversion error with code ERROR_NO_UNICODE_TRANSLATION.
C4_Original ==
    \A t \in Threads :
        (Done(t) /\ call[t].dir = "Utf8FromUtf16" /\ ~Valid(call[t].dir, call[t].src)
                 /\ NoInjected(t))
            => ThrewConversionError(t, ERROR_NO_UNICODE_TRANSLATION)

\* C4: Utf8FromUtf16 of a code-unit sequence that is not valid UTF-16 never returns
\* a buffer: it throws the conversion error, and when the sequence is no longer
\* than 2^31 - 1 and the platform answers as documented the code is
\* ERROR_NO_UNICODE_TRANSLATION.
C4_InvalidUtf16Rejected ==
    \A t \in Threads :
        (Done(t) /\ call[t].dir = "Utf8FromUtf16" /\ ~Valid(call[t].dir, call[t].src))
            => /\ outcome[t].kind = "threw"
               /\ outcome[t].type = "Utf8ConversionException"
               /\ (NoInjected(t) /\ FitsInt(BufLen(call[t].src)))
                      => outcome[t].code = ERROR_NO_UNICODE_TRANSLATION

\* Utf8FromUtf16 of 'v' followed by the units D800 0100 threw with the code of
\* the platform
C4_Witness ==
    \E t \in Threads :
        /\ Done(t)
        /\ call[t].dir = "Utf8FromUtf16"
        /\ call[t].src = [fill |-> BigZero, tail |-> <<118, 55296, 256>>]
        /\ ThrewConversionError(t, ERROR_NO_UNICODE_TRANSLATION)

\* C5 as claimed: a valid string converts, and the conversion back of what was
\* returned succeeds and gives the string the round trip started from.
C5_Original ==
    \A t \in Threads :
        (Done(t) /\ NoInjected(t)) =>
            /\ (call[t].leg = 1 /\ Valid(call[t].dir, call[t].src))
                   => outcome[t].kind = "returned"
            /\ call[t].leg = 2 => outcome[t] = Returned(call[t].orig, 0)

\* string b of the source encoding of direction d is valid, and it and its
\* conversion are no longer than 2^31 - 1
ValidAndFits(d, b) ==
    /\ Valid(d, b)
    /\ FitsInt(BufLen(b))
    /\ FitsInt(BufLen(Transcoded(d, b, TRUE).out))

\* C5: round trip in both directions, for strings within the int range: when the
\* platform answers as documented, a valid string that, like its conversion, is no
\* longer than 2^31 - 1 converts, and the conversion back of what was returned
\* succeeds and equals the string the round trip started from.
C5_RoundTrip ==
    \A t \in Threads :
        (Done(t) /\ NoInjected(t)) =>
            /\ (call[t].leg = 1 /\ ValidAndFits(call[t].dir, call[t].src))
                   => (outcome[t].kind = "returned" /\ outcome[t].unwritten = 0)
            /\ call[t].leg = 2 => outcome[t] = Returned(call[t].orig, 0)

\* the conversion back returned the UTF-16 string the round trip started from, a
\* string with a surrogate pair and a 3-byte character
C5_Witness ==
    \E t \in Threads :
        /\ Done(t)
        /\ call[t].leg = 2
        /\ call[t].orig = [fill |-> BigZero, tail |-> <<55357, 56832, 37329>>]
        /\ call[t].src = [fill |-> BigZero, tail |-> <<240, 159, 152, 128, 233, 135, 145>>]
        /\ outcome[t] = Returned(call[t].orig, 0)

KinUtf8 == [fill |-> BigZero, tail |-> <<233, 135, 145>>]

KinUtf16 == [fill |-> BigZero, tail |-> <<37329>>]

\* C6: when the platform answers as documented, Utf16FromUtf8 of the bytes
\* E9 87 91 returns exactly the code unit 91D1, and Utf8FromUtf16 of the code unit
\* 91D1 returns exactly the bytes E9 87 91.
C6_KnownVector ==
    \A t \in Threads :
        (Done(t) /\ NoInjected(t)) =>
            /\ (call[t].dir = "Utf16FromUtf8" /\ call[t].src = KinUtf8)
                   => outcome[t] = Returned(KinUtf16, 0)
            /\ (call[t].dir = "Utf8FromUtf16" /\ call[t].src = KinUtf16)
                   => outcome[t] = Returned(KinUtf8, 0)

\* Utf16FromUtf8 of E9 87 91 returned 91D1, and Utf8FromUtf16 of that returned
\* E9 87 91
C6_Witness ==
    \E t \in Threads :
        /\ Done(t)
        /\ call[t].leg = 2
        /\ call[t].orig = KinUtf8
        /\ call[t].dir = "Utf8FromUtf16"
        /\ call[t].src = KinUtf16
        /\ outcome[t].buf = KinUtf8

\* C7: every call to the service, of either direction and of either pass, carries
\* the flag that makes the service fail on an invalid sequence:
\* MB_ERR_INVALID_CHARS to MultiByteToWideChar, WC_ERR_INVALID_CHARS to
\* WideCharToMultiByte.
C7_StrictFlagOnEveryCall ==
    \A t \in Threads : \A i \in DOMAIN svcCalls[t] :
        /\ svcCalls[t][i].dir = call[t].dir
        /\ svcCalls[t][i].dir = "Utf16FromUtf8" => svcCalls[t][i].flags = MB_ERR_INVALID_CHARS
        /\ svcCalls[t][i].dir = "Utf8FromUtf16" => svcCalls[t][i].flags = WC_ERR_INVALID_CHARS

\* a call of Utf8FromUtf16 has made its query pass and its transcode pass
C7_Witness ==
    \E t \in Threads :
        /\ call[t].dir = "Utf8FromUtf16"
        /\ Len(svcCalls[t]) = 2
        /\ svcCalls[t][1].pass = "query"
        /\ svcCalls[t][2].pass = "transcode"

\* the pass of that name of the current call of thread t failed
PassFailed(t, pass) ==
    \E i \in DOMAIN svcCalls[t] : svcCalls[t][i].pass = pass /\ svcCalls[t][i].res = 0

\* the length guard of the current call of thread t failed
GuardFailed(t) == ~IsEmpty(call[t].src) /\ ~FitsInt(BufLen(call[t].src))

\* C8: every call of the four entry points ends either with a returned buffer or
\* with a thrown conversion error; it ends with the error, and no buffer, exactly
\* when the guard, the query pass or the transcode pass failed.
C8_BufferOrError ==
    \A t \in Threads :
        Done(t) =>
            /\ outcome[t].kind \in {"returned", "threw"}
            /\ outcome[t].kind = "threw" =>
                   (outcome[t].type = "Utf8ConversionException" /\ outcome[t].buf = EmptyBuf)
            /\ (GuardFailed(t) \/ PassFailed(t, "query") \/ PassFailed(t, "transcode"))
                   <=> outcome[t].kind = "threw"

\* a call whose query pass succeeded and whose transcode pass failed threw
C8_Witness ==
    \E t \in Threads :
        /\ Done(t)
        /\ ~PassFailed(t, "query")
        /\ PassFailed(t, "transcode")
        /\ outcome[t].kind = "threw"

\* C9: when the query pass or the transcode pass fails, the code of the thrown
\* conversion error is the last error the service reported for that failing call.
C9_ErrorCodeIsLastError ==
    \A t \in Threads :
        (Done(t) /\ svcCalls[t] # <<>> /\ svcCalls[t][Len(svcCalls[t])].res = 0) =>
            /\ svcCalls[t][Len(svcCalls[t])].sets
            /\ ThrewConversionError(t, svcCalls[t][Len(svcCalls[t])].err)

\* the transcode pass failed with ERROR_INSUFFICIENT_BUFFER and the call threw
\* with that code
C9_Witness ==
    \E t \in Threads :
        /\ Done(t)
        /\ Len(svcCalls[t]) = 2
        /\ svcCalls[t][2].res = 0
        /\ svcCalls[t][2].err = ERROR_INSUFFICIENT_BUFFER
        /\ outcome[t].code = ERROR_INSUFFICIENT_BUFFER

\* the last service call of the current call of thread t was that pass, and failed
FailedIn(t, pass) ==
    /\ Done(t)
    /\ svcCalls[t] # <<>>
    /\ svcCalls[t][Len(svcCalls[t])].pass = pass
    /\ svcCalls[t][Len(svcCalls[t])].res = 0

\* C10: a call that failed in the query pass and a call of the same direction that
\* failed in the transcode pass, the service having reported the same last error
\* to both, threw errors with the same message and the same code.
C10_PassesReportedAlike ==
    \A t1 \in Threads, t2 \in Threads :
        (/\ FailedIn(t1, "query")
         /\ FailedIn(t2, "transcode")
         /\ call[t1].dir = call[t2].dir
         /\ svcCalls[t1][Len(svcCalls[t1])].err = svcCalls[t2][Len(svcCalls[t2])].err)
            => /\ outcome[t1].kind = "threw"
               /\ outcome[t1] = outcome[t2]

\* two calls of Utf16FromUtf8 have ended, one failed in the query pass and one in
\* the transcode pass, both with ERROR_INSUFFICIENT_BUFFER
C10_Witness ==
    \E t1 \in Threads, t2 \in Threads :
        /\ FailedIn(t1, "query")
        /\ FailedIn(t2, "transcode")
        /\ call[t1].dir = "Utf16FromUtf8"
        /\ call[t2].dir = "Utf16FromUtf8"
        /\ svcCalls[t1][1].err = ERROR_INSUFFICIENT_BUFFER
        /\ svcCalls[t2][2].err = ERROR_INSUFFICIENT_BUFFER

\* the current call of thread t ran the body of a range overload to its end and
\* returned a converted string
ReturnedFromPasses(t) ==
    Done(t) /\ outcome[t].kind = "returned" /\ svcCalls[t] # <<>>

\* C11: when a range overload returns a converted string, the length of the string
\* is the length the query pass returned and the number of units the transcode
\* pass wrote, and every unit of the string was written by the transcode pass.
C11_LengthIsExact ==
    \A t \in Threads :
        ReturnedFromPasses(t) =>
            /\ Len(svcCalls[t]) = 2
            /\ BufLen(outcome[t].buf) = Big(svcCalls[t][1].res)
            /\ BufLen(outcome[t].buf) = Big(svcCalls[t][2].res)
            /\ outcome[t].buf = loc[t].written
            /\ outcome[t].unwritten = 0

\* the range overload of Utf8FromUtf16 returned the 7 bytes of a string of 3 code
\* units
C11_Witness ==
    \E t \in Threads :
        /\ ReturnedFromPasses(t)
        /\ call[t].entry = "range"
        /\ call[t].src = [fill |-> BigZero, tail |-> <<55357, 56832, 37329>>]
        /\ svcCalls[t][1].res = 7
        /\ BufLen(outcome[t].buf) = Big(7)

\* what the service did in the i-th service call of thread t: it answered as the
\* platform documents (<<>>), or with a scripted result and last error
Behaviour(t, i) ==
    IF svcCalls[t][i].injected THEN <<svcCalls[t][i].res, svcCalls[t][i].err>> ELSE <<>>

\* the service behaved alike towards the current calls of t1 and t2
SameService(t1, t2) ==
    \A i \in DOMAIN svcCalls[t1] \cap DOMAIN svcCalls[t2] : Behaviour(t1, i) = Behaviour(t2, i)

\* t1 called an owned-string overload with a string b, t2 the range overload of
\* the same function with start = b.data() and finish = start + b.length()
OwnedAndItsRange(t1, t2) ==
    /\ call[t1].entry = "owned"
    /\ call[t2].entry = "range"
    /\ call[t1].dir = call[t2].dir
    /\ call[t2].mem = call[t1].src
    /\ call[t2].src = call[t2].mem
    /\ call[t2].addr = call[t1].addr

\* C12: a call of an owned-string overload with a string b, empty or not, and a
\* call of the range overload of the same function with [b.data(), b.data() +
\* b.length()), to which the service behaved alike, end alike: with the same
\* returned string or the same thrown message and code, after the same service
\* calls.
C12_AdapterAddsNothing ==
    \A t1 \in Threads, t2 \in Threads :
        (Done(t1) /\ Done(t2) /\ OwnedAndItsRange(t1, t2) /\ SameService(t1, t2))
            => /\ outcome[t1] = outcome[t2]
               /\ svcCalls[t1] = svcCalls[t2]

\* Utf16FromUtf8 was called with the std::string "kin" and, side by side, with the
\* range of that string; both calls returned 91D1
C12_Witness ==
    \E t1 \in Threads, t2 \in Threads :
        /\ Done(t1) /\ Done(t2)
        /\ OwnedAndItsRange(t1, t2)
        /\ SameService(t1, t2)
        /\ call[t1].src = KinUtf8
        /\ outcome[t1] = Returned(KinUtf16, 0)
        /\ outcome[t2] = Returned(KinUtf16, 0)

\* C13: a call of an owned-string overload with an empty string never enters the
\* range overload, never takes the string's data pointer (the locals start and
\* finish stay unset), never calls the service, and ends by returning an empty
\* string.
C13_EmptyOwnedHandledByAdapter ==
    \A t \in Threads :
        (call[t].entry = "owned" /\ BufLen(call[t].src) = BigZero) =>
            /\ pc[t] \in {"owned", "done"}
            /\ loc[t] = NoLocals
            /\ svcCalls[t] = <<>>
            /\ Done(t) => outcome[t] = Returned(EmptyBuf, 0)

\* Utf8FromUtf16 was called with an empty CStringW and has returned
C13_Witness ==
    \E t \in Threads :
        /\ Done(t)
        /\ call[t].entry = "owned"
        /\ call[t].dir = "Utf8FromUtf16"
        /\ call[t].leg = 1
        /\ call[t].src = EmptyBuf
        /\ outcome[t].kind = "returned"

\* thread t has made a service call that failed and has not yet asked for the
\* last error
FailureNotYetRead(t) ==
    /\ pc[t] \in {"queryCheck", "transcodeCheck"}
    /\ svcCalls[t][Len(svcCalls[t])].res = 0

\* the state of the call of thread u is the same before and after the step
CallUntouched(u) ==
    /\ pc'[u] = pc[u]
    /\ call'[u] = call[u]
    /\ loc'[u] = loc[u]
    /\ lastError'[u] = lastError[u]
    /\ svcCalls'[u] = svcCalls[u]
    /\ outcome'[u] = outcome[u]

\* C14: calls of several threads need no coordination.  Under every interleaving
\* of their steps each call ends as it does when it runs alone, with the outcome
\* the sequential function gives for its arguments and the replies it got; the
\* last error a call is about to read is the one its own failed pass set; and no
\* step of one thread changes anything of the call of another thread.
C14_ThreadSafe ==
    /\ [](\A t \in Threads :
            /\ Done(t) => outcome[t] = SequentialOutcome(call[t], svcCalls[t])
            /\ FailureNotYetRead(t) =>
                   CapturedError(t) = svcCalls[t][Len(svcCalls[t])].err)
    /\ [][\A t \in Threads, u \in Threads :
              (t # u /\ pc'[t] # pc[t]) => CallUntouched(u)]_vars

\* two calls are in flight side by side: the query pass of one has failed with
\* ERROR_NO_UNICODE_TRANSLATION, the transcode pass of the other with
\* ERROR_INSUFFICIENT_BUFFER, and neither has read the last error yet
C14_Witness ==
    \E t \in Threads, u \in Threads :
        /\ t # u
        /\ FailureNotYetRead(t) /\ FailureNotYetRead(u)
        /\ pc[t] = "queryCheck"
        /\ svcCalls[t][1].err = ERROR_NO_UNICODE_TRANSLATION
        /\ pc[u] = "transcodeCheck"
        /\ svcCalls[u][2].err = ERROR_INSUFFICIENT_BUFFER

\* C15: a call makes at most two service calls, the query pass (destination size
\* 0) and then the transcode pass.  The transcode pass is made only after the query
\* pass returned a length other than 0 and the output string was given that
\* length; it has the source start, source length and flags of the query pass and
\* the queried length as its destination size.  A failed pass is the last service
\* call of its call, and a call on a non-empty range within the bound makes the
\* query pass.
C15_TwoPassOrder ==
    \A t \in Threads :
        LET log == svcCalls[t]
        IN  /\ Len(log) <= 2
            /\ pc[t] \in {"owned", "range", "guard", "query"} => Len(log) = 0
            /\ pc[t] \in {"queryCheck", "alloc", "transcode"} => Len(log) = 1
            /\ pc[t] = "transcodeCheck" => Len(log) = 2
            /\ Len(log) >= 1 =>
                   /\ log[1].pass = "query"
                   /\ log[1].dstSize = 0
                   /\ log[1].src = loc[t].start
            /\ Len(log) = 2 =>
                   /\ log[2].pass = "transcode"
                   /\ log[1].res # 0
                   /\ loc[t].dstLen = log[1].res
                   /\ log[2].dstSize = log[1].res
                   /\ log[2].src = log[1].src
                   /\ log[2].srcLen = log[1].srcLen
                   /\ log[2].flags = log[1].flags
            /\ \A i \in DOMAIN log : log[i].res = 0 => i = Len(log)
            /\ (Done(t) /\ ~IsEmpty(call[t].src) /\ FitsInt(BufLen(call[t].src)))
                   => Len(log) >= 1

\* the range overload of Utf16FromUtf8 has converted "kin" in a query pass and a
\* transcode pass with destination size 1
C15_Witness ==
    \E t \in Threads :
        /\ Done(t)
        /\ call[t].entry = "range"
        /\ call[t].src = KinUtf8
        /\ Len(svcCalls[t]) = 2
        /\ svcCalls[t][1].res = 1
        /\ svcCalls[t][2].dstSize = 1
        /\ svcCalls[t][2].res = 1

\* Thread t is in a call whose pass of that name got a result for which `failed`
\* holds: the call is at the check after that pass or has ended, no further
\* service call was made, and it ends by throwing the conversion error, without
\* a buffer.
RaisedAfter(t, pass, failed(_)) ==
    \A i \in DOMAIN svcCalls[t] :
        (svcCalls[t][i].pass = pass /\ failed(svcCalls[t][i].res)) =>
            /\ i = Len(svcCalls[t])
            /\ pc[t] \in {IF pass = "query" THEN "queryCheck" ELSE "transcodeCheck", "done"}
            /\ Done(t) => /\ outcome[t].kind = "threw"
                          /\ outcome[t].type = "Utf8ConversionException"
                          /\ outcome[t].what = ErrorMessage(call[t].dir)
                          /\ outcome[t].buf = EmptyBuf

ZeroOrNegative(result) == result <= 0

Zero(result) == result = 0

C17_SourceLengthIsRangeLength ==
    \A t \in Threads :
        /\ \A i \in DOMAIN svcCalls[t] :
               /\ svcCalls[t][i].srcLen >= 1
               /\ svcCalls[t][i].srcLen <= IntMax
               /\ Big(svcCalls[t][i].srcLen) = BufLen(call[t].src)
               /\ EndAddress(loc[t].start, Take(call[t].mem, Big(svcCalls[t][i].srcLen)),
                             call[t].dir) = loc[t].finish
        /\ (Done(t) /\ BufLen(call[t].src) = Big(IntMax)) =>
               /\ svcCalls[t] # <<>>
               /\ svcCalls[t][1].srcLen = IntMax
        /\ BufLen(call[t].src) = BigAdd(Big(IntMax), Big(1)) =>
               /\ svcCalls[t] = <<>>
               /\ Done(t) => ThrewConversionError(t, ERROR_INVALID_PARAMETER)

\* a range overload was called with a range of exactly 2^31 - 1 elements and made
\* its query pass with source length 2^31 - 1
C17_Witness ==
    \E t \in Threads :
        /\ call[t].entry = "range"
        /\ BufLen(call[t].src) = Big(IntMax)
        /\ svcCalls[t] # <<>>
        /\ svcCalls[t][1].srcLen = IntMax

\* thread t is in a call of a range overload that was passed start > finish
Reversed(t) == call[t].entry = "range" /\ BigLess(loc[t].finish, loc[t].start)

\* the call of thread t is stopped by the length guard: it makes no service call
\* and ends by throwing the input-too-long error with ERROR_INVALID_PARAMETER
RejectedByGuard(t) ==
    /\ svcCalls[t] = <<>>
    /\ pc[t] \in {"range", "guard", "done"}
    /\ Done(t) => outcome[t] = Utf8ConversionException(TooLongMessage, ERROR_INVALID_PARAMETER)

\* start lies no more than 2^31 bytes above finish
WithinHalfOf32(t) == ~BigLess(SignBit(32), BigSub(loc[t].start, loc[t].finish))

\* C18 as claimed: in a build of either width, a call of a range overload with
\* start > finish is stopped by the length guard: it never calls the service and
\* throws the input-too-long error with ERROR_INVALID_PARAMETER.
C18_Original ==
    \A t \in Threads : Reversed(t) => RejectedByGuard(t)

\* C18: a call of a range overload with start > finish is stopped by the length
\* guard, never calls the service and throws the input-too-long error with
\* ERROR_INVALID_PARAMETER, in a 64-bit build always and in a 32-bit build when
\* start lies no more than 2^31 bytes above finish.
C18_ReversedRangeRejected ==
    \A t \in Threads :
        (Reversed(t) /\ (sizeBits = 64 \/ WithinHalfOf32(t))) => RejectedByGuard(t)

\* in a 32-bit build Utf8FromUtf16 was called with a start exactly 2^31 bytes above
\* finish and threw
C18_Witness ==
    \E t \in Threads :
        /\ Done(t)
        /\ Reversed(t)
        /\ sizeBits = 32
        /\ call[t].dir = "Utf8FromUtf16"
        /\ BigSub(loc[t].start, loc[t].finish) = SignBit(32)
        /\ outcome[t].kind = "threw"

=============================================================================
